---- MODULE Spec2Model ----
(***************************************************************************)
(* Glue Data Catalog (rust/src/data_catalog/glue/mod.rs).                  *)
(*                                                                         *)
(* The model covers GlueDataCatalog::new / create_glue_client (bootstrap   *)
(* from the process environment), get_table_storage_location and           *)
(* record_table_storage_location, each an async call that issues one       *)
(* remote request and resumes when the remote answers.  Several logical    *)
(* tasks share one catalog object.                                         *)
(*                                                                         *)
(* Locations and URIs are sequences of one-character strings, so that      *)
(* str::replace, str::ends_with and slicing are computed character by      *)
(* character.  Option<T> is a sequence of length at most one.              *)
(***************************************************************************)
EXTENDS Naturals, Sequences, FiniteSets

VARIABLES
    env,        \* the process environment read by new()
    catalog,    \* None before new(); Some(Result<GlueDataCatalog, DataCatalogError>)
    pc,         \* per task: "idle", "get_await", "create_await", "returned"
    call,       \* per task: the arguments of the call in progress
    sent,       \* per task: the remote requests issued by the call in progress
    response,   \* per task: the remote's answer to the task's request
    result,     \* per task: the value the call returned
    getCalls,   \* number of get_table_storage_location calls started
    getRequests \* number of get-table requests issued to the remote

vars == <<env, catalog, pc, call, sent, response, result, getCalls, getRequests>>

----------------------------------------------------------------------------
(* Bounds *)

\* Longest path body (in characters) of an enumerated location.
MaxBody == 3

\* Number of get_table_storage_location calls a behaviour may start.
MaxCalls == 3

----------------------------------------------------------------------------
(* Option and Result *)

None == << >>
Some(x) == << x >>
IsSome(o) == Len(o) = 1
Unwrap(o) == o[1]

Ok(v) == [tag |-> "Ok", val |-> Some(v), err |-> None]
Err(e) == [tag |-> "Err", val |-> None, err |-> Some(e)]
IsOk(r) == r.tag = "Ok"
IsErr(r) == r.tag = "Err"

\* The unit value ().
Unit == "()"

\* DataCatalogError values: the variant, its `metadata` field, its `source`.
MissingMetadata(m) == [kind |-> "MissingMetadata", metadata |-> m, source |-> ""]
InconsistentDeltaTableMetadata(m) ==
    [kind |-> "InconsistentDeltaTableMetadata", metadata |-> m, source |-> ""]
GlueCreateTableError(failure) ==
    [kind |-> "GlueCreateTableError", metadata |-> "", source |-> failure]
\* The `?` operator: From<E> for DataCatalogError, keeping the cause as source.
ErrorFrom(failure) == [kind |-> "From", metadata |-> "", source |-> failure]

----------------------------------------------------------------------------
(* Strings *)

S3A == <<"s", "3", "a">>
S3 == <<"s", "3">>
SchemeSep == <<":", "/", "/">>

PLACEHOLDER_SUFFIX ==
    <<"-", "_", "_", "P", "L", "A", "C", "E", "H", "O", "L", "D", "E", "R", "_", "_">>

\* str::starts_with
StartsWith(s, p) == Len(s) >= Len(p) /\ SubSeq(s, 1, Len(p)) = p

\* str::ends_with
EndsWith(s, suf) ==
    Len(s) >= Len(suf) /\ SubSeq(s, Len(s) - Len(suf) + 1, Len(s)) = suf

\* str::replace(from, to): every non-overlapping match of `from`, scanning
\* left to right, is replaced by `to`.
RECURSIVE Replace(_, _, _)
Replace(s, from, to) ==
    IF Len(s) < Len(from) THEN s
    ELSE IF SubSeq(s, 1, Len(from)) = from
         THEN to \o Replace(SubSeq(s, Len(from) + 1, Len(s)), from, to)
         ELSE <<Head(s)>> \o Replace(Tail(s), from, to)

\* location[..location.len() - PLACEHOLDER_SUFFIX.len()]
SliceOffSuffix(location) == SubSeq(location, 1, Len(location) - Len(PLACEHOLDER_SUFFIX))

----------------------------------------------------------------------------
(* Inputs: the values callers, the environment and the remote may supply *)

Tasks == {"t1", "t2"}

EndpointValues == {"http://localhost:4566"}
RegionNames == {"eu-west-1"}
TokenFiles == {"/var/run/secrets/token"}

Opt(S) == {None} \cup {Some(x) : x \in S}

Environments ==
    [AWS_ENDPOINT_URL : Opt(EndpointValues),
     AWS_REGION : Opt(RegionNames),
     AWS_WEB_IDENTITY_TOKEN_FILE : Opt(TokenFiles)]

CatalogIds == {"c1", "c2"}
DatabaseNames == {"db1", "db2"}
TableNames == {"t1", "t2"}
Descriptions == {"d1"}
MetadataNames == {"n1"}

\* Failures the remote service or the transport may report.
Causes == {"AccessDenied", "Timeout"}

\* Locations the remote may hold: a prefix, a path body, a tail.
LocationPrefixes ==
    {S3A \o SchemeSep, S3 \o SchemeSep, <<"f">> \o SchemeSep, << >>}

BodyChars == {"s", "3", "a", "/"}

Bodies == UNION {[1..n -> BodyChars] : n \in 0..MaxBody}

LocationTails ==
    {<< >>,
     PLACEHOLDER_SUFFIX,
     PLACEHOLDER_SUFFIX \o PLACEHOLDER_SUFFIX,
     SubSeq(PLACEHOLDER_SUFFIX, 1, Len(PLACEHOLDER_SUFFIX) - 1),
     PLACEHOLDER_SUFFIX \o <<"/">>}

Locations ==
    {p \o b \o t : p \in LocationPrefixes, b \in Bodies, t \in LocationTails}

\* A few locations for the runs with several tasks.
SampleLocations ==
    {S3A \o SchemeSep \o <<"b", "/", "t">> \o PLACEHOLDER_SUFFIX,
     S3 \o SchemeSep \o <<"b", "/">> \o S3A,
     <<"f">> \o SchemeSep \o <<"/", "t">>}

\* Table URIs a DeltaTable handle may carry.
TableUris ==
    {<<"f">> \o SchemeSep \o <<"/", "t">>,
     S3A \o SchemeSep \o <<"b">> \o PLACEHOLDER_SUFFIX}

DeltaTables == [table_uri : TableUris]

DeltaTableMetaDatas == [name : Opt(MetadataNames), description : Opt(Descriptions)]

----------------------------------------------------------------------------
(* Catalog client bootstrap *)

RegionDefault == [tag |-> "Default", name |-> None, endpoint |-> None]
RegionCustom(name, endpoint) ==
    [tag |-> "Custom", name |-> Some(name), endpoint |-> Some(endpoint)]

\* std::env::var(key): Ok(value) when the variable is set.
EnvVar(e, key) == e[key]

\* Variant: AWS_REGION alone also selects a custom region.
RegionFromEnvRegionAlone(e) ==
    IF IsSome(EnvVar(e, "AWS_ENDPOINT_URL")) \/ IsSome(EnvVar(e, "AWS_REGION"))
    THEN RegionCustom(
             IF IsSome(EnvVar(e, "AWS_REGION"))
             THEN Unwrap(EnvVar(e, "AWS_REGION"))
             ELSE "custom",
             IF IsSome(EnvVar(e, "AWS_ENDPOINT_URL"))
             THEN Unwrap(EnvVar(e, "AWS_ENDPOINT_URL"))
             ELSE "")
    ELSE RegionDefault

\* let region = ... in GlueDataCatalog::new
RegionFromEnv(e) ==
    IF IsSome(EnvVar(e, "AWS_ENDPOINT_URL"))
    THEN RegionCustom(
             IF IsSome(EnvVar(e, "AWS_REGION"))
             THEN Unwrap(EnvVar(e, "AWS_REGION"))
             ELSE "custom",
             Unwrap(EnvVar(e, "AWS_ENDPOINT_URL")))
    ELSE RegionDefault

\* GlueClient::new_with(HttpClient, AutoRefreshingProvider<WebIdentityProvider>, region)
GlueClientNewWith(region) ==
    [region |-> region, dispatcher |-> "HttpClient::new",
     credentials |-> "AutoRefreshingProvider<WebIdentityProvider>"]

\* GlueClient::new(region): default dispatcher, default provider chain
GlueClientNew(region) ==
    [region |-> region, dispatcher |-> "default",
     credentials |-> "DefaultCredentialsProvider"]

\* get_web_identity_provider: AutoRefreshingProvider::new(provider)? may fail.
GetWebIdentityProvider ==
    {Ok("AutoRefreshingProvider<WebIdentityProvider>"),
     Err(ErrorFrom("CredentialsError"))}

\* HttpClient::new()? may fail.
HttpClientNew == {Ok("HttpClient::new"), Err(ErrorFrom("TlsError"))}

\* create_glue_client: the set of results the call may produce.
CreateGlueClient(region, e) ==
    IF IsSome(EnvVar(e, "AWS_WEB_IDENTITY_TOKEN_FILE"))
    THEN {IF IsErr(h) THEN h
          ELSE IF IsErr(p) THEN p
          ELSE Ok(GlueClientNewWith(region)) :
              h \in HttpClientNew, p \in GetWebIdentityProvider}
    ELSE {Ok(GlueClientNew(region))}

\* GlueDataCatalog::new: Ok(Self { client }) or the construction error.
GlueDataCatalogNew(e) ==
    {IF IsOk(c) THEN Ok([client |-> Unwrap(c.val)]) ELSE c :
        c \in CreateGlueClient(RegionFromEnv(e), e)}

\* impl From<GlueClient> for GlueDataCatalog
FromGlueClient(client) == [client |-> client]

\* The catalog object exists: its methods can be called.
Constructed == IsSome(catalog) /\ IsOk(Unwrap(catalog))

----------------------------------------------------------------------------
(* get_table_storage_location *)

GetTableRequest(catalog_id, database_name, table_name) ==
    [catalog_id |-> catalog_id, database_name |-> database_name, name |-> table_name]

\* What the remote may answer to a get-table request: a failure, or a
\* GetTableResponse whose table, storage_descriptor and location are optional.
GetTableResponses(Locs) ==
    {Err(c) : c \in Causes}
    \cup {Ok([table |-> None])}
    \cup {Ok([table |-> Some([storage_descriptor |-> None])])}
    \cup {Ok([table |-> Some([storage_descriptor |-> Some([location |-> l])])]) :
              l \in Opt(Locs)}

\* Variant: a missing storage descriptor is reported as a missing table.
ExtractLocationMislabelled(resp) ==
    IF ~IsSome(resp.table) THEN Err(MissingMetadata("Table"))
    ELSE IF ~IsSome(Unwrap(resp.table).storage_descriptor)
         THEN Err(MissingMetadata("Table"))
    ELSE IF ~IsSome(Unwrap(Unwrap(resp.table).storage_descriptor).location)
         THEN Err(MissingMetadata("Location"))
    ELSE Ok(Replace(Unwrap(Unwrap(Unwrap(resp.table).storage_descriptor).location),
                    S3A, S3))

\* let location = response.table.ok_or(..)?.storage_descriptor.ok_or(..)?
\*                    .location.map(|l| l.replace("s3a", "s3")).ok_or(..)
ExtractLocation(resp) ==
    IF ~IsSome(resp.table) THEN Err(MissingMetadata("Table"))
    ELSE IF ~IsSome(Unwrap(resp.table).storage_descriptor)
         THEN Err(MissingMetadata("Storage Descriptor"))
    ELSE IF ~IsSome(Unwrap(Unwrap(resp.table).storage_descriptor).location)
         THEN Err(MissingMetadata("Location"))
    ELSE Ok(Replace(Unwrap(Unwrap(Unwrap(resp.table).storage_descriptor).location),
                    S3A, S3))

\* match location { Ok(location) => strip the placeholder suffix, Err(err) => Err(err) }
StripPlaceholder(location) ==
    IF IsOk(location)
    THEN IF EndsWith(Unwrap(location.val), PLACEHOLDER_SUFFIX)
         THEN Ok(SliceOffSuffix(Unwrap(location.val)))
         ELSE Ok(Unwrap(location.val))
    ELSE location

\* The value get_table_storage_location returns for a remote answer.
GetTableOutcome(answer) ==
    IF IsErr(answer) THEN Err(ErrorFrom(Unwrap(answer.err)))
    ELSE StripPlaceholder(ExtractLocation(Unwrap(answer.val)))

\* Variant: the answer is read from a slot shared by the tasks that await
\* the same operation.
AwaitedResponseShared(t) ==
    Unwrap(response[CHOOSE u \in Tasks : pc[u] = pc[t] /\ IsSome(response[u])])

\* The answer a resuming task reads: the one delivered to its own future.
AwaitedResponse(t) == Unwrap(response[t])

\* The call starts: the request is built from the arguments and issued.
GetTableCall(t) ==
    /\ Constructed
    /\ pc[t] = "idle"
    /\ getCalls < MaxCalls
    /\ \E catalog_id \in Opt(CatalogIds), database_name \in DatabaseNames,
          table_name \in TableNames :
          /\ call' = [call EXCEPT ![t] =
                         Some([op |-> "get", catalog_id |-> catalog_id,
                               database_name |-> database_name,
                               table_name |-> table_name])]
          /\ sent' = [sent EXCEPT ![t] =
                         <<GetTableRequest(catalog_id, database_name, table_name)>>]
    /\ pc' = [pc EXCEPT ![t] = "get_await"]
    /\ getCalls' = getCalls + 1
    /\ getRequests' = getRequests + 1
    /\ UNCHANGED <<env, catalog, response, result>>

\* The remote service answers the task's get-table request.
RemoteGetTable(t, Locs) ==
    /\ pc[t] = "get_await"
    /\ response[t] = None
    /\ \E answer \in GetTableResponses(Locs) :
          response' = [response EXCEPT ![t] = Some(answer)]
    /\ UNCHANGED <<env, catalog, pc, call, sent, result, getCalls, getRequests>>

\* Variant: a failed get-table request is issued a second time.
GetTableResumeRetry(t) ==
    /\ pc[t] = "get_await"
    /\ IsSome(response[t])
    /\ IF IsErr(AwaitedResponse(t)) /\ Len(sent[t]) < 2
       THEN /\ sent' = [sent EXCEPT ![t] = Append(sent[t], sent[t][1])]
            /\ response' = [response EXCEPT ![t] = None]
            /\ getRequests' = getRequests + 1
            /\ UNCHANGED <<pc, result>>
       ELSE /\ result' = [result EXCEPT ![t] = Some(GetTableOutcome(AwaitedResponse(t)))]
            /\ pc' = [pc EXCEPT ![t] = "returned"]
            /\ UNCHANGED <<sent, response, getRequests>>
    /\ UNCHANGED <<env, catalog, call, getCalls>>

\* `.await?` completes and the rest of the function runs to its return.
GetTableResume(t) ==
    /\ pc[t] = "get_await"
    /\ IsSome(response[t])
    /\ result' = [result EXCEPT ![t] = Some(GetTableOutcome(AwaitedResponse(t)))]
    /\ pc' = [pc EXCEPT ![t] = "returned"]
    /\ UNCHANGED <<env, catalog, call, sent, response, getCalls, getRequests>>

----------------------------------------------------------------------------
(* record_table_storage_location *)

\* Variant: the table URI is normalised like a resolved location.
StorageDescriptorNormalized(location) ==
    [bucket_columns |-> None,
     columns |-> None,
     compressed |-> None,
     input_format |-> None,
     location |-> Some(Replace(location, S3A, S3)),
     number_of_buckets |-> None,
     output_format |-> None,
     parameters |-> None,
     schema_reference |-> None,
     serde_info |-> None,
     skewed_info |-> None,
     sort_columns |-> None,
     stored_as_sub_directories |-> None]

StorageDescriptor(location) ==
    [bucket_columns |-> None,
     columns |-> None,
     compressed |-> None,
     input_format |-> None,
     location |-> Some(location),
     number_of_buckets |-> None,
     output_format |-> None,
     parameters |-> None,
     schema_reference |-> None,
     serde_info |-> None,
     skewed_info |-> None,
     sort_columns |-> None,
     stored_as_sub_directories |-> None]

TableInput(name, table, metadata) ==
    [description |-> metadata.description,
     last_access_time |-> None,
     last_analyzed_time |-> None,
     name |-> name,
     owner |-> None,
     parameters |-> None,
     partition_keys |-> None,
     retention |-> None,
     storage_descriptor |-> Some(StorageDescriptor(table.table_uri)),
     table_type |-> None,
     target_table |-> None,
     view_expanded_text |-> None,
     view_original_text |-> None]

\* Variant: the target database is taken from the catalog id.
CreateTableRequestCatalogDb(catalog_id, name, table, metadata) ==
    [database_name |-> catalog_id,
     table_input |-> TableInput(name, table, metadata),
     catalog_id |-> Some(catalog_id),
     partition_indexes |-> None]

CreateTableRequest(catalog_id, name, table, metadata) ==
    [database_name |-> "unknown",
     table_input |-> TableInput(name, table, metadata),
     catalog_id |-> Some(catalog_id),
     partition_indexes |-> None]

\* Variant: a missing name falls back to the empty name (unwrap_or_default).
BuildRequestDefaultName(catalog_id, table, metadata) ==
    Ok(CreateTableRequest(catalog_id,
                          IF IsSome(metadata.name) THEN Unwrap(metadata.name) ELSE "",
                          table, metadata))

\* let table_name = metadata.name.ok_or(..); let request = table_name.map(..)
BuildRequest(catalog_id, table, metadata) ==
    IF IsSome(metadata.name)
    THEN Ok(CreateTableRequest(catalog_id, Unwrap(metadata.name), table, metadata))
    ELSE Err(InconsistentDeltaTableMetadata("name"))

\* What the remote may answer to a create-table request.
CreateTableResponses == {Ok(Unit)} \cup {Err(c) : c \in Causes}

\* match response { Ok(_) => Ok(()), Err(failure) => Err(GlueCreateTableError) }
CreateTableOutcome(answer) ==
    IF IsOk(answer) THEN Ok(Unit)
    ELSE Err(GlueCreateTableError(Unwrap(answer.err)))

\* The call starts: without a name it returns at once, otherwise the
\* create-table request is issued and the call awaits the answer.
RecordCall(t) ==
    /\ Constructed
    /\ pc[t] = "idle"
    /\ \E catalog_id \in CatalogIds, table \in DeltaTables,
          metadata \in DeltaTableMetaDatas :
          LET request == BuildRequest(catalog_id, table, metadata) IN
          /\ call' = [call EXCEPT ![t] =
                         Some([op |-> "record", catalog_id |-> catalog_id,
                               table |-> table, metadata |-> metadata])]
          /\ IF IsOk(request)
             THEN /\ sent' = [sent EXCEPT ![t] = <<Unwrap(request.val)>>]
                  /\ pc' = [pc EXCEPT ![t] = "create_await"]
                  /\ result' = result
             ELSE /\ sent' = sent
                  /\ pc' = [pc EXCEPT ![t] = "returned"]
                  /\ result' = [result EXCEPT ![t] = Some(request)]
    /\ UNCHANGED <<env, catalog, response, getCalls, getRequests>>

\* The remote service answers the task's create-table request.
RemoteCreateTable(t) ==
    /\ pc[t] = "create_await"
    /\ response[t] = None
    /\ \E answer \in CreateTableResponses :
          response' = [response EXCEPT ![t] = Some(answer)]
    /\ UNCHANGED <<env, catalog, pc, call, sent, result, getCalls, getRequests>>

\* Variant: a failed create-table request is issued a second time.
RecordResumeRetry(t) ==
    /\ pc[t] = "create_await"
    /\ IsSome(response[t])
    /\ IF IsErr(AwaitedResponse(t)) /\ Len(sent[t]) < 2
       THEN /\ sent' = [sent EXCEPT ![t] = Append(sent[t], sent[t][1])]
            /\ response' = [response EXCEPT ![t] = None]
            /\ UNCHANGED <<pc, result>>
       ELSE /\ result' = [result EXCEPT ![t] = Some(CreateTableOutcome(AwaitedResponse(t)))]
            /\ pc' = [pc EXCEPT ![t] = "returned"]
            /\ UNCHANGED <<sent, response>>
    /\ UNCHANGED <<env, catalog, call, getCalls, getRequests>>

\* `.await` completes and the response is matched.
RecordResume(t) ==
    /\ pc[t] = "create_await"
    /\ IsSome(response[t])
    /\ result' = [result EXCEPT ![t] = Some(CreateTableOutcome(AwaitedResponse(t)))]
    /\ pc' = [pc EXCEPT ![t] = "returned"]
    /\ UNCHANGED <<env, catalog, call, sent, response, getCalls, getRequests>>

\* The caller takes the returned value; the call's locals are dropped.
Return(t) ==
    /\ pc[t] = "returned"
    /\ pc' = [pc EXCEPT ![t] = "idle"]
    /\ call' = [call EXCEPT ![t] = None]
    /\ sent' = [sent EXCEPT ![t] = << >>]
    /\ response' = [response EXCEPT ![t] = None]
    /\ result' = [result EXCEPT ![t] = None]
    /\ UNCHANGED <<env, catalog, getCalls, getRequests>>

----------------------------------------------------------------------------
(* Specifications *)

\* GlueDataCatalog::new() reads the environment and builds the catalog object.
New ==
    /\ catalog = None
    /\ \E r \in GlueDataCatalogNew(env) : catalog' = Some(r)
    /\ UNCHANGED <<env, pc, call, sent, response, result, getCalls, getRequests>>

NoCalls ==
    /\ pc = [t \in Tasks |-> "idle"]
    /\ call = [t \in Tasks |-> None]
    /\ sent = [t \in Tasks |-> << >>]
    /\ response = [t \in Tasks |-> None]
    /\ result = [t \in Tasks |-> None]
    /\ getCalls = 0
    /\ getRequests = 0

\* The process starts with some environment and no catalog object.
Init ==
    /\ env \in Environments
    /\ catalog = None
    /\ NoCalls

Next ==
    \/ New
    \/ \E t \in Tasks : GetTableCall(t)
    \/ \E t \in Tasks : RemoteGetTable(t, SampleLocations)
    \/ \E t \in Tasks : GetTableResume(t)
    \/ \E t \in Tasks : RecordCall(t)
    \/ \E t \in Tasks : RemoteCreateTable(t)
    \/ \E t \in Tasks : RecordResume(t)
    \/ \E t \in Tasks : Return(t)

Spec == Init /\ [][Next]_vars

\* Location normalisation over every enumerated location: one caller, and a
\* catalog object built from a ready client (From<GlueClient>).
InitLocations ==
    /\ env = [AWS_ENDPOINT_URL |-> None, AWS_REGION |-> None,
              AWS_WEB_IDENTITY_TOKEN_FILE |-> None]
    /\ catalog = Some(Ok(FromGlueClient(GlueClientNew(RegionDefault))))
    /\ NoCalls

NextLocations ==
    \/ GetTableCall("t1")
    \/ RemoteGetTable("t1", Locations)
    \/ GetTableResume("t1")
    \/ Return("t1")

SpecLocations == InitLocations /\ [][NextLocations]_vars

----------------------------------------------------------------------------
(* Properties *)

CallOf(t) == Unwrap(call[t])
AnswerOf(t) == Unwrap(response[t])

\* Task t is inside (or has returned from) a call of the given operation.
InCall(t, op) == IsSome(call[t]) /\ CallOf(t).op = op

\* Task t returned from get_table_storage_location.
ReturnedGet(t) == pc[t] = "returned" /\ InCall(t, "get")

\* Task t returned from record_table_storage_location.
ReturnedRecord(t) == pc[t] = "returned" /\ InCall(t, "record")

\* The remote answered task t's get-table request with a location.
HasLocation(t) ==
    /\ IsSome(response[t])
    /\ IsOk(AnswerOf(t))
    /\ IsSome(Unwrap(AnswerOf(t).val).table)
    /\ IsSome(Unwrap(Unwrap(AnswerOf(t).val).table).storage_descriptor)
    /\ IsSome(Unwrap(Unwrap(Unwrap(AnswerOf(t).val).table).storage_descriptor).location)

LocationOf(t) ==
    Unwrap(Unwrap(Unwrap(Unwrap(AnswerOf(t).val).table).storage_descriptor).location)

\* A URI whose scheme token is s3a.
UsesS3aScheme(l) == StartsWith(l, S3A \o <<":">>)

\* The rewrite of the scheme token alone: s3a:rest becomes s3:rest.
SchemeRewrite(l) ==
    IF UsesS3aScheme(l) THEN S3 \o SubSeq(l, Len(S3A) + 1, Len(l)) ELSE l

\* C1: for a location with the s3a scheme and without the placeholder suffix,
\* get_table_storage_location returns the location with the scheme token s3a
\* replaced by s3 and every character after the scheme unchanged.
C1_OnlySchemeRewritten ==
    \A t \in Tasks :
        (ReturnedGet(t) /\ HasLocation(t) /\ UsesS3aScheme(LocationOf(t))
            /\ ~EndsWith(LocationOf(t), PLACEHOLDER_SUFFIX))
        => result[t] = Some(Ok(S3 \o SubSeq(LocationOf(t), Len(S3A) + 1,
                                             Len(LocationOf(t)))))

\* C2: for a location ending with the placeholder suffix the call returns the
\* scheme-rewritten location with exactly one trailing suffix removed and no
\* other character altered; a location not ending with the suffix is not
\* shortened below its scheme-rewritten form.
C2_OnlySuffixStripped ==
    \A t \in Tasks :
        (ReturnedGet(t) /\ HasLocation(t))
        => /\ IsOk(Unwrap(result[t]))
           /\ IF EndsWith(LocationOf(t), PLACEHOLDER_SUFFIX)
              THEN Unwrap(Unwrap(result[t]).val)
                       = SliceOffSuffix(SchemeRewrite(LocationOf(t)))
              ELSE Len(Unwrap(Unwrap(result[t]).val))
                       >= Len(SchemeRewrite(LocationOf(t)))

\* C3: a successful get-table response lacking a piece yields a
\* MissingMetadata error naming the first missing piece in the order Table,
\* Storage Descriptor, Location, and never a location.
C3_MissingMetadataNamed ==
    \A t \in Tasks :
        (ReturnedGet(t) /\ IsOk(AnswerOf(t)) /\ ~HasLocation(t))
        => LET table == Unwrap(AnswerOf(t).val).table
               named ==
                   IF table = None THEN "Table"
                   ELSE IF Unwrap(table).storage_descriptor = None
                        THEN "Storage Descriptor"
                        ELSE "Location"
           IN  result[t] = Some([tag |-> "Err", val |-> None,
                                 err |-> Some([kind |-> "MissingMetadata",
                                               metadata |-> named,
                                               source |-> ""])])

\* C3 witness: a call returned for a response with a table but no storage descriptor.
C3_Witness ==
    \E t \in Tasks :
        /\ ReturnedGet(t)
        /\ IsOk(AnswerOf(t))
        /\ IsSome(Unwrap(AnswerOf(t).val).table)
        /\ Unwrap(Unwrap(AnswerOf(t).val).table).storage_descriptor = None

\* C4: a record call whose metadata has no name returns
\* InconsistentDeltaTableMetadata naming "name" and issues no remote request.
C4_NoNameNoRequest ==
    \A t \in Tasks :
        (InCall(t, "record") /\ CallOf(t).metadata.name = None)
        => /\ pc[t] = "returned"
           /\ sent[t] = << >>
           /\ response[t] = None
           /\ result[t] = Some([tag |-> "Err", val |-> None,
                                 err |-> Some([kind |-> "InconsistentDeltaTableMetadata",
                                               metadata |-> "name",
                                               source |-> ""])])

\* C4 witness: a record call without a name has returned.
C4_Witness ==
    \E t \in Tasks : ReturnedRecord(t) /\ CallOf(t).metadata.name = None

\* C5: for a record call with a name, the create-table request carries the
\* table handle's URI unchanged as storage descriptor location, the supplied
\* name, the metadata's description, the supplied catalog id, and every other
\* table-input and storage-descriptor attribute unset.
C5_RequestMapsInputs ==
    \A t \in Tasks :
        (InCall(t, "record") /\ IsSome(CallOf(t).metadata.name))
        => /\ Len(sent[t]) >= 1
           /\ \A i \in 1..Len(sent[t]) :
                 /\ sent[t][i].catalog_id = Some(CallOf(t).catalog_id)
                 /\ sent[t][i].partition_indexes = None
                 /\ sent[t][i].table_input =
                      [description |-> CallOf(t).metadata.description,
                       last_access_time |-> None,
                       last_analyzed_time |-> None,
                       name |-> Unwrap(CallOf(t).metadata.name),
                       owner |-> None,
                       parameters |-> None,
                       partition_keys |-> None,
                       retention |-> None,
                       storage_descriptor |->
                           Some([bucket_columns |-> None,
                                 columns |-> None,
                                 compressed |-> None,
                                 input_format |-> None,
                                 location |-> Some(CallOf(t).table.table_uri),
                                 number_of_buckets |-> None,
                                 output_format |-> None,
                                 parameters |-> None,
                                 schema_reference |-> None,
                                 serde_info |-> None,
                                 skewed_info |-> None,
                                 sort_columns |-> None,
                                 stored_as_sub_directories |-> None]),
                       table_type |-> None,
                       target_table |-> None,
                       view_expanded_text |-> None,
                       view_original_text |-> None]

\* C5 witness: a request was issued for a table whose URI has the s3a scheme
\* and the placeholder suffix, with a description.
C5_Witness ==
    \E t \in Tasks :
        /\ InCall(t, "record")
        /\ Len(sent[t]) = 1
        /\ UsesS3aScheme(CallOf(t).table.table_uri)
        /\ EndsWith(CallOf(t).table.table_uri, PLACEHOLDER_SUFFIX)
        /\ IsSome(CallOf(t).metadata.description)

\* C6: a record call with a name issues exactly one create-table request; a
\* remote failure is returned as GlueCreateTableError carrying the cause with
\* no second request, a remote success is returned as success.
C6_OneCreateRequest ==
    \A t \in Tasks :
        (InCall(t, "record") /\ IsSome(CallOf(t).metadata.name))
        => /\ Len(sent[t]) = 1
           /\ pc[t] \in {"create_await", "returned"}
           /\ pc[t] = "returned"
                => /\ IsSome(response[t])
                   /\ IF IsOk(AnswerOf(t))
                      THEN result[t] = Some([tag |-> "Ok", val |-> Some(Unit),
                                             err |-> None])
                      ELSE result[t] =
                               Some([tag |-> "Err", val |-> None,
                                     err |-> Some([kind |-> "GlueCreateTableError",
                                                   metadata |-> "",
                                                   source |-> Unwrap(AnswerOf(t).err)])])

\* C6 witness: a record call returned after the remote reported a failure.
C6_Witness ==
    \E t \in Tasks : ReturnedRecord(t) /\ IsSome(response[t]) /\ IsErr(AnswerOf(t))

\* C7: every get_table_storage_location call issues exactly one get-table
\* request keyed by its own (catalog_id, database_name, table_name); the
\* number of requests equals the number of calls; the call returns what the
\* answer to that request yields, and a failed request is returned as an
\* error without a second request.
C7_OneGetRequestPerCall ==
    /\ getRequests = getCalls
    /\ \A t \in Tasks :
          InCall(t, "get")
          => /\ sent[t] = <<[catalog_id |-> CallOf(t).catalog_id,
                              database_name |-> CallOf(t).database_name,
                              name |-> CallOf(t).table_name]>>
             /\ pc[t] = "returned"
                  => /\ IsSome(response[t])
                     /\ result[t] = Some(GetTableOutcome(AnswerOf(t)))
                     /\ IsErr(AnswerOf(t))
                          => result[t] =
                                 Some([tag |-> "Err", val |-> None,
                                       err |-> Some([kind |-> "From",
                                                     metadata |-> "",
                                                     source |-> Unwrap(AnswerOf(t).err)])])

\* C7 witness: a later call (not the first) returned after a failed request.
C7_Witness ==
    /\ getCalls >= 2
    /\ \E t \in Tasks : ReturnedGet(t) /\ IsErr(AnswerOf(t))

\* C8: the region is Custom{AWS_REGION or "custom", AWS_ENDPOINT_URL} exactly
\* when AWS_ENDPOINT_URL is set and the default region otherwise; the client
\* is built on the web-identity path exactly when AWS_WEB_IDENTITY_TOKEN_FILE
\* is set and on the default-provider-chain path otherwise; the two choices
\* are independent.
C8_BootstrapBranch ==
    IsSome(catalog)
    => LET webIdentity == env.AWS_WEB_IDENTITY_TOKEN_FILE # None
           region ==
               IF env.AWS_ENDPOINT_URL # None
               THEN [tag |-> "Custom",
                     name |-> IF env.AWS_REGION # None THEN env.AWS_REGION
                              ELSE Some("custom"),
                     endpoint |-> env.AWS_ENDPOINT_URL]
               ELSE [tag |-> "Default", name |-> None, endpoint |-> None]
       IN  IF IsOk(Unwrap(catalog))
           THEN LET client == Unwrap(Unwrap(catalog).val).client IN
                /\ client.region = region
                /\ client.credentials =
                      IF webIdentity
                      THEN "AutoRefreshingProvider<WebIdentityProvider>"
                      ELSE "DefaultCredentialsProvider"
                /\ client.dispatcher =
                      IF webIdentity THEN "HttpClient::new" ELSE "default"
           ELSE webIdentity

\* C8 witness: a catalog built with AWS_REGION alone and the token file set.
C8_Witness ==
    /\ Constructed
    /\ env.AWS_ENDPOINT_URL = None
    /\ env.AWS_REGION # None
    /\ env.AWS_WEB_IDENTITY_TOKEN_FILE # None

\* What a call returns when run alone with its arguments c and remote answer a.
AloneOutcome(c, a) ==
    IF c.op = "get" THEN GetTableOutcome(Unwrap(a))
    ELSE IF c.metadata.name = None
         THEN Err(InconsistentDeltaTableMetadata("name"))
         ELSE CreateTableOutcome(Unwrap(a))

\* C9: under any interleaving of calls on one catalog object, no step of a
\* call changes the catalog object, and the value a call returns is the one
\* its own arguments and its own remote answer yield.
C9_CallsIndependent ==
    [][/\ Constructed => catalog' = catalog
       /\ \A t \in Tasks :
             (pc[t] # "returned" /\ pc'[t] = "returned")
             => result'[t] = Some(AloneOutcome(Unwrap(call'[t]), response'[t]))]_vars

\* C9 witness: one task has returned while the other, in the same operation,
\* holds a different remote answer.
C9_Witness ==
    \E t, u \in Tasks :
        /\ t # u
        /\ ReturnedGet(t)
        /\ pc[u] = "get_await"
        /\ IsSome(response[u])
        /\ response[u] # response[t]

\* C10: every create-table request targets the database name "unknown",
\* whatever the table handle, metadata and catalog id.
C10_DatabaseUnknown ==
    \A t \in Tasks :
        InCall(t, "record")
        => \A i \in 1..Len(sent[t]) : sent[t][i].database_name = "unknown"

\* C10 witness: both tasks issued requests for different catalog ids and tables.
C10_Witness ==
    \E t, u \in Tasks :
        /\ InCall(t, "record") /\ InCall(u, "record")
        /\ Len(sent[t]) = 1 /\ Len(sent[u]) = 1
        /\ CallOf(t).catalog_id # CallOf(u).catalog_id
        /\ CallOf(t).table # CallOf(u).table

====
